---- MODULE Spec2Model ----
(***************************************************************************)
(* seq2c-rs (src/src/main.rs): coverage of the named regions of a BED file *)
(* by the alignment records of a BAM file.  main() loads the regions,      *)
(* builds one interval index per chromosome, streams the alignment         *)
(* records adding an overlap length to every region a record touches, and  *)
(* then builds the whole report in memory and prints it once.              *)
(*                                                                         *)
(* The interval index is the coitrees crate.  Its intervals and its        *)
(* queries are closed at both ends: a node [first, last] is visited by     *)
(* query(qfirst, qlast) iff first <= qlast and last >= qfirst.             *)
(***************************************************************************)
EXTENDS Integers, Sequences, FiniteSets, TLC

VARIABLES
    pc,               \* position of main(): start, bed, openbam, bam (the head of the
                      \* alignment loop), bam_next (the end of its body), report, done,
                      \* panicked
    mimic_perl_output,\* cli.mimic_perl_output
    nodes,            \* nodes: chromosome -> Vec<Interval<RegionWithName>>
    bed_chrom_order,  \* Vec of chromosome names
    querents,         \* querents (over bed_map): chromosome -> indexed nodes with their counts
    cur,              \* the alignment loop's locals at the end of its body: the cur
                      \* taken, chrom, start, end; after a panic, its message
    chrom_i,          \* position of the report loop in bed_chrom_order
    output_string,    \* the report being built: a sequence of rows
    stdout            \* what has been written to standard output

vars == <<pc, mimic_perl_output, nodes, bed_chrom_order, querents, cur, chrom_i,
          output_string, stdout>>

----------------------------------------------------------------------------
(* Bounds of the model *)

MaxRegions == 1       \* region records read (Spec)
MaxPos == 2           \* largest region coordinate and leftmost record position (Spec)
MaxCigarOps == 1      \* CIGAR operations of one record
MaxOpLen == 1         \* length of one CIGAR operation
MaxCount == 2         \* records are read while every overlap_total stays within it (Spec)
MaxRegionsReport == 3 \* region records read (SpecReport)
MaxPosReport == 1     \* largest region coordinate (SpecReport)
MaxCountReport == 1   \* as MaxCount (SpecReport)

(* Program constants *)

I32_MAX == 2147483647
\* TLC's integers are 32 bits wide: i64::MAX is their largest value here.
\* No coordinate of the model comes near it.
I64_MAX == 2147483647

sample_name == "S"
Header == [tag |-> "Header"]

----------------------------------------------------------------------------
(* Inputs *)

BedChroms == {"chr1", "chr2"}

\* names in the byte order Rust's String ordering gives them
NameOrder == <<"", ".", "A", "B">>

\* rec.name() is an Option: <<>> is None, <<n>> is Some(n)
BedRecordsOver(chroms, names, maxpos) ==
    {r \in [chrom : chroms, start : 0..maxpos, end : 0..maxpos,
             name : {<<>>} \cup {<<x>> : x \in names}] : r.start <= r.end}

CigarKinds == {"Match", "Del", "Ins"}
CigarOps == {[kind |-> k, len |-> l] : k \in CigarKinds, l \in 1..MaxOpLen}
Cigars == UNION {[1..n -> CigarOps] : n \in 0..MaxCigarOps}

\* the contig names of the BAM header, by tid
BamHeader == <<"chr1", "chr2">>

\* a record with tid = -1 has no assigned reference
AlnRecordsOver(tids, maxpos, cigars) ==
    [tid : tids, supplementary : BOOLEAN, pos : 0..maxpos, cigar : cigars]
    \cup [tid : {-1}, supplementary : BOOLEAN, pos : {0}, cigar : {<<>>}]

----------------------------------------------------------------------------
(* Pure functions of main.rs *)

Min(a, b) == IF a < b THEN a ELSE b
Max(a, b) == IF a > b THEN a ELSE b

\* calculate_coverage as a half-open length, without the + 1
calculate_coverage_HalfOpen(a_start, a_end, b_start, b_end) ==
    Min(a_end, b_end) - Max(a_start, b_start)

\* fn calculate_coverage(a: Range<i64>, b: Range<i64>) -> i64
calculate_coverage(a_start, a_end, b_start, b_end) ==
    Min(a_end, b_end) - Max(a_start, b_start) + 1

\* update_node without the test of the name
update_node_Unnamed(start, end, interval) ==
    [interval EXCEPT !.count =
        @ + calculate_coverage(start, end, interval.first, interval.last)]

\* update_node with `*count =` for `*count +=`
update_node_Assign(start, end, interval) ==
    IF interval.name # "."
    THEN [interval EXCEPT !.count =
              calculate_coverage(start, end, interval.first, interval.last)]
    ELSE interval

\* fn update_node(start, end, interval): the node after the call
update_node(start, end, interval) ==
    IF interval.name # "."
    THEN [interval EXCEPT !.count =
              @ + calculate_coverage(start, end, interval.first, interval.last)]
    ELSE interval

\* coitrees: the node [first, last] overlaps the query [qfirst, qlast]
Overlaps(interval, qfirst, qlast) ==
    interval.first <= qlast /\ interval.last >= qfirst

\* QueryUpdate with a pad of two bases
QueryUpdate_WidePad(tree, start, end) ==
    [i \in DOMAIN tree |->
        IF Overlaps(tree[i], start - 2, end + 2)
        THEN update_node(start, end, tree[i])
        ELSE tree[i]]

\* querent_chrom.query(start-1, end+1, |node| update_node(start, end, node)):
\* the chromosome's nodes after the call
QueryUpdate(tree, start, end) ==
    [i \in DOMAIN tree |->
        IF Overlaps(tree[i], start - 1, end + 1)
        THEN update_node(start, end, tree[i])
        ELSE tree[i]]

\* the filter_map(...).sum() over record.cigar(): Match and Del lengths
RECURSIVE CigarRefLen(_)
CigarRefLen(cigar) ==
    IF cigar = <<>> THEN 0
    ELSE (IF Head(cigar).kind \in {"Match", "Del"} THEN Head(cigar).len ELSE 0)
         + CigarRefLen(Tail(cigar))

\* AlnStart left 0-based
AlnStart_ZeroBased(record) == record.pos

\* record.reference_start() + 1
AlnStart(record) == record.pos + 1
\* start - 1 + sum of the Match and Del lengths
AlnEnd(record) == AlnStart(record) - 1 + CigarRefLen(record.cigar)
\* record.contig()
Contig(record) == BamHeader[record.tid + 1]

NoLocals == [branch |-> "none", chrom |-> "", start |-> 0, end |-> 0]

\* ProcessRecord without the skip of supplementary records
ProcessRecord_NoSupplementarySkip(q, record) ==
    IF record.tid < 0
    THEN [querents |-> q, cur |-> [NoLocals EXCEPT !.branch = "unmapped"]]
    ELSE LET start == AlnStart(record)
             chrom == Contig(record)
             end == AlnEnd(record)
         IN  IF chrom \notin DOMAIN q
             THEN [querents |-> q,
                   cur |-> [branch |-> "absent", chrom |-> chrom,
                            start |-> start, end |-> end]]
             ELSE [querents |-> [q EXCEPT ![chrom] = QueryUpdate(@, start, end)],
                   cur |-> [branch |-> "queried", chrom |-> chrom,
                            start |-> start, end |-> end]]

\* The body of `for r in bam.rc_records()` on an Ok record: the querents after
\* it, and its locals
ProcessRecord(q, record) ==
    IF record.supplementary
    THEN [querents |-> q, cur |-> [NoLocals EXCEPT !.branch = "supplementary"]]
    ELSE IF record.tid < 0
    THEN [querents |-> q, cur |-> [NoLocals EXCEPT !.branch = "unmapped"]]
    ELSE LET start == AlnStart(record)
             chrom == Contig(record)
             end == AlnEnd(record)
         IN  IF chrom \notin DOMAIN q
             THEN [querents |-> q,
                   cur |-> [branch |-> "absent", chrom |-> chrom,
                            start |-> start, end |-> end]]
             ELSE [querents |-> [q EXCEPT ![chrom] = QueryUpdate(@, start, end)],
                   cur |-> [branch |-> "queried", chrom |-> chrom,
                            start |-> start, end |-> end]]

----------------------------------------------------------------------------
(* Orderings *)

\* position of a name in Rust's String order
NameRank(n) == CHOOSE i \in 1..Len(NameOrder) : NameOrder[i] = n

\* lexicographic < on integer tuples of one length
RECURSIVE LexLess(_, _)
LexLess(k1, k2) ==
    IF k1 = <<>> THEN FALSE
    ELSE IF Head(k1) # Head(k2) THEN Head(k1) < Head(k2)
    ELSE LexLess(Tail(k1), Tail(k2))

\* a stable sort of <<key, item>> pairs by key
RECURSIVE InsertSorted(_, _)
InsertSorted(p, s) ==
    IF s = <<>> THEN <<p>>
    ELSE IF LexLess(p[1], Head(s)[1]) THEN <<p>> \o s
    ELSE <<Head(s)>> \o InsertSorted(p, Tail(s))

RECURSIVE SortPairs(_)
SortPairs(s) ==
    IF s = <<>> THEN <<>>
    ELSE InsertSorted(s[Len(s)], SortPairs(SubSeq(s, 1, Len(s) - 1)))

\* #[derive(PartialOrd, Ord)] on OutputRegion: name, start, end, count
OutputRegionKey(r) == <<NameRank(r.name), r.start, r.end, r.count>>

\* output.sort()
SortOutput(output) ==
    LET sorted == SortPairs([i \in DOMAIN output |-> <<OutputRegionKey(output[i]), output[i]>>])
    IN  [i \in DOMAIN sorted |-> sorted[i][2]]

\* COITree::new(&chrom_nodes): the index keeps the nodes in an order of its
\* own, by position; no result of the program depends on that order
COITreeNew(chrom_nodes) ==
    LET sorted == SortPairs([i \in DOMAIN chrom_nodes |->
                     <<<<chrom_nodes[i].first, chrom_nodes[i].last,
                         NameRank(chrom_nodes[i].name)>>, chrom_nodes[i]>>])
    IN  [i \in DOMAIN sorted |-> sorted[i][2]]

\* bed_chrom_order.dedup(): Vec::dedup removes consecutive repeated elements
RECURSIVE Dedup(_)
Dedup(v) ==
    IF Len(v) <= 1 THEN v
    ELSE IF v[1] = v[2] THEN Dedup(Tail(v))
    ELSE <<v[1]>> \o Dedup(Tail(v))

----------------------------------------------------------------------------
(* The report *)

\* chrom_tree.query(0, i32::MAX, |node| output.push(OutputRegion{..}))
DrainTree(tree) ==
    LET hit == SelectSeq(tree, LAMBDA n : Overlaps(n, 0, I32_MAX))
    IN  [i \in DOMAIN hit |->
            [name |-> hit[i].name, start |-> hit[i].first,
             end |-> hit[i].last, count |-> hit[i].count]]

\* the state of the fold at the top of a chromosome's loop
FoldInit ==
    [current_gene |-> "", total_length |-> 0, current_start |-> I64_MAX,
     current_end |-> 0, total_count |-> 0, out |-> <<>>]

\* the Whole-Gene line of the group the fold is in; MeanDepth is the ratio
\* num/den that the format then prints with two decimals
WholeGeneRow(g, chrom) ==
    [sample |-> sample_name, gene |-> g.current_gene, chr |-> chrom,
     start |-> g.current_start, end |-> g.current_end, tag |-> "Whole-Gene",
     length |-> g.total_length,
     depth |-> IF g.total_length > 0
               THEN [num |-> g.total_count, den |-> g.total_length]
               ELSE [num |-> 0, den |-> 1]]

\* if mimic_perl_output { end - start + 1 } else { end - start }
RegionLength(region, mimic) ==
    IF mimic THEN region.end - region.start + 1 ELSE region.end - region.start

AmpliconRow(region, chrom, mimic) ==
    [sample |-> sample_name, gene |-> region.name, chr |-> chrom,
     start |-> region.start, end |-> region.end, tag |-> "Amplicon",
     length |-> RegionLength(region, mimic),
     depth |-> [num |-> region.count, den |-> RegionLength(region, mimic)]]

\* the group has a previous gene to write out: !current_gene.is_empty()
HasPreviousGene(g) == g.current_gene # ""

\* one iteration of `for region in output.iter()`
FoldStep(g, region, chrom, mimic) ==
    LET g1 == IF region.name # g.current_gene
              THEN [current_gene |-> region.name, total_length |-> 0,
                    current_start |-> region.start, current_end |-> 0,
                    total_count |-> 0,
                    out |-> IF HasPreviousGene(g)
                            THEN Append(g.out, WholeGeneRow(g, chrom))
                            ELSE g.out]
              ELSE g
        length == RegionLength(region, mimic)
    IN  [g1 EXCEPT !.current_end = Max(@, region.end),
                   !.out = Append(@, AmpliconRow(region, chrom, mimic)),
                   !.total_length = @ + length,
                   !.total_count = @ + region.count]

RECURSIVE Fold(_, _, _, _)
Fold(g, output, chrom, mimic) ==
    IF output = <<>> THEN g
    ELSE Fold(FoldStep(g, Head(output), chrom, mimic), Tail(output), chrom, mimic)

\* one iteration of `for chrom in bed_chrom_order`: the lines it appends
ChromBlock(chrom, tree, mimic) ==
    LET g == Fold(FoldInit, SortOutput(DrainTree(tree)), chrom, mimic)
    IN  Append(g.out, WholeGeneRow(g, chrom))

----------------------------------------------------------------------------
(* main() *)

\* a diagnostic written with println!
Diagnostic_Println(out, msg) == Append(out, [tag |-> msg])

\* eprintln!(..) writes to standard error: standard output is as it was
Diagnostic(out, msg) == out

Panic(reason) ==
    /\ pc' = "panicked"
    /\ cur' = [NoLocals EXCEPT !.branch = reason]
    /\ nodes' = <<>>
    /\ bed_chrom_order' = <<>>
    /\ querents' = <<>>
    /\ chrom_i' = 0
    /\ output_string' = <<>>
    /\ UNCHANGED mimic_perl_output

InitWith(mimics) ==
    /\ pc = "start"
    /\ mimic_perl_output \in mimics
    /\ nodes = <<>>
    /\ bed_chrom_order = <<>>
    /\ querents = <<>>
    /\ cur = NoLocals
    /\ chrom_i = 0
    /\ output_string = <<>>
    /\ stdout = <<>>

\* lines 77-94: the command line is parsed and the BED file opened
OpenBed ==
    /\ pc = "start"
    /\ pc' = "bed"
    /\ stdout' = Diagnostic(stdout, "Reading bed file")
    /\ UNCHANGED <<mimic_perl_output, nodes, bed_chrom_order, querents, cur,
                   chrom_i, output_string>>

\* line 94: File::open(cli.bed)...unwrap() on an unreadable file
OpenBedFail ==
    /\ pc = "start"
    /\ stdout' = Diagnostic(stdout, "Started")
    /\ Panic("bed unreadable")

\* lines 95-108, one iteration on an Ok record
ReadBedRecord(rec, maxregions) ==
    /\ pc = "bed"
    /\ Len(bed_chrom_order) < maxregions
    /\ IF rec.name = <<>>
       THEN \* rec.name().expect("BED record does not define name")
            /\ Panic("no name")
            /\ UNCHANGED stdout
       ELSE LET node_vec == IF rec.chrom \in DOMAIN nodes THEN nodes[rec.chrom] ELSE <<>>
                interval == [first |-> rec.start, last |-> rec.end,
                             name |-> rec.name[1], count |-> 0]
            IN  /\ nodes' = [c \in DOMAIN nodes \cup {rec.chrom} |->
                                IF c = rec.chrom THEN Append(node_vec, interval)
                                ELSE nodes[c]]
                /\ bed_chrom_order' = Append(bed_chrom_order, rec.chrom)
                /\ UNCHANGED <<pc, mimic_perl_output, querents, cur, chrom_i,
                               output_string, stdout>>

\* line 96: record.expect("Error reading record.") on an Err
ReadBedError ==
    /\ pc = "bed"
    /\ Panic("bed record error")
    /\ UNCHANGED stdout

\* lines 110-122: the records are exhausted; the trees and querents are built
EndBed ==
    /\ pc = "bed"
    /\ pc' = "openbam"
    /\ querents' = [c \in DOMAIN nodes |-> COITreeNew(nodes[c])]
    /\ nodes' = <<>>
    /\ bed_chrom_order' = Dedup(bed_chrom_order)
    /\ stdout' = Diagnostic(stdout, "Reading bed file finished")
    /\ UNCHANGED <<mimic_perl_output, cur, chrom_i, output_string>>

\* lines 126-127
OpenBam ==
    /\ pc = "openbam"
    /\ pc' = "bam"
    /\ stdout' = Diagnostic(stdout, "Starting processing bam file")
    /\ UNCHANGED <<mimic_perl_output, nodes, bed_chrom_order, querents, cur,
                   chrom_i, output_string>>

\* line 126: bam::Reader::from_path(cli.bam).unwrap() on an unreadable file
OpenBamFail ==
    /\ pc = "openbam"
    /\ stdout' = Diagnostic(stdout, "Starting processing bam file")
    /\ Panic("bam unreadable")

CountsWithin(q, maxcount) ==
    \A c \in DOMAIN q : \A i \in DOMAIN q[c] : q[c][i].count <= maxcount

\* lines 129-155: the body of the loop on an Ok record
ReadBamRecord(record, maxcount) ==
    /\ pc = "bam"
    /\ LET after == ProcessRecord(querents, record)
       IN  /\ CountsWithin(after.querents, maxcount)
           /\ querents' = after.querents
           /\ cur' = after.cur
    /\ pc' = "bam_next"
    /\ UNCHANGED <<mimic_perl_output, nodes, bed_chrom_order, chrom_i,
                   output_string, stdout>>

\* the body has ended (a `continue`, or its last line): back to the loop's head
NextBamRecord ==
    /\ pc = "bam_next"
    /\ pc' = "bam"
    /\ cur' = NoLocals
    /\ UNCHANGED <<mimic_perl_output, nodes, bed_chrom_order, querents, chrom_i,
                   output_string, stdout>>

\* line 130: r.expect("Failure parsing Bam file") on an Err
ReadBamError ==
    /\ pc = "bam"
    /\ Panic("bam record error")
    /\ UNCHANGED stdout

\* lines 157-162: the records are exhausted; the header starts output_string
EndBam ==
    /\ pc = "bam"
    /\ pc' = "report"
    /\ chrom_i' = 1
    /\ output_string' = <<Header>>
    /\ stdout' = Diagnostic(stdout, "Outputing result into stdout")
    /\ UNCHANGED <<mimic_perl_output, nodes, bed_chrom_order, querents, cur>>

\* lines 164-217, one iteration of `for chrom in bed_chrom_order`
ReportChrom ==
    /\ pc = "report"
    /\ chrom_i <= Len(bed_chrom_order)
    /\ LET chrom == bed_chrom_order[chrom_i]
       IN  output_string' = output_string
                            \o ChromBlock(chrom, querents[chrom], mimic_perl_output)
    /\ chrom_i' = chrom_i + 1
    /\ UNCHANGED <<pc, mimic_perl_output, nodes, bed_chrom_order, querents, cur, stdout>>

\* lines 218-220: print!("{}", output_string)
PrintReport ==
    /\ pc = "report"
    /\ chrom_i > Len(bed_chrom_order)
    /\ pc' = "done"
    /\ stdout' = Diagnostic(stdout, "Done") \o output_string
    /\ UNCHANGED <<mimic_perl_output, nodes, bed_chrom_order, querents, cur,
                   chrom_i, output_string>>

----------------------------------------------------------------------------
(* Specifications *)

\* Spec: regions named "." or "A" at coordinates 0..MaxPos, every CIGAR
BedRecords == BedRecordsOver(BedChroms, {".", "A"}, MaxPos)
AlnRecords == AlnRecordsOver({0, 1}, MaxPos, Cigars)

Init == InitWith({TRUE})

Next ==
    \/ OpenBed
    \/ OpenBedFail
    \/ \E rec \in BedRecords : ReadBedRecord(rec, MaxRegions)
    \/ ReadBedError
    \/ EndBed
    \/ OpenBam
    \/ OpenBamFail
    \/ \E record \in AlnRecords : ReadBamRecord(record, MaxCount)
    \/ NextBamRecord
    \/ ReadBamError
    \/ EndBam
    \/ ReportChrom
    \/ PrintReport

Spec == Init /\ [][Next]_vars

\* SpecOrder: regions named "A", and records whose CIGAR is empty or one Match
MatchCigars == {<<>>} \cup {<<[kind |-> "Match", len |-> l]>> : l \in 1..MaxOpLen}
BedRecordsOrder == BedRecordsOver(BedChroms, {"A"}, MaxPos)
AlnRecordsOrder == AlnRecordsOver({0, 1}, MaxPos, MatchCigars)

NextOrder ==
    \/ OpenBed
    \/ OpenBedFail
    \/ \E rec \in BedRecordsOrder : ReadBedRecord(rec, MaxRegions)
    \/ ReadBedError
    \/ EndBed
    \/ OpenBam
    \/ OpenBamFail
    \/ \E record \in AlnRecordsOrder : ReadBamRecord(record, MaxCount)
    \/ NextBamRecord
    \/ ReadBamError
    \/ EndBam
    \/ ReportChrom
    \/ PrintReport

SpecOrder == Init /\ [][NextOrder]_vars

\* SpecReport: regions of any name but ".", both length conventions, and
\* records that differ only in their flags
BedRecordsReport == BedRecordsOver(BedChroms, {"", "A", "B"}, MaxPosReport)
AlnRecordsReport == AlnRecordsOver({0}, 0, {<<[kind |-> "Match", len |-> 1]>>})

InitReport == InitWith(BOOLEAN)

NextReport ==
    \/ OpenBed
    \/ OpenBedFail
    \/ \E rec \in BedRecordsReport : ReadBedRecord(rec, MaxRegionsReport)
    \/ ReadBedError
    \/ EndBed
    \/ OpenBam
    \/ OpenBamFail
    \/ \E record \in AlnRecordsReport : ReadBamRecord(record, MaxCountReport)
    \/ NextBamRecord
    \/ ReadBamError
    \/ EndBam
    \/ ReportChrom
    \/ PrintReport

SpecReport == InitReport /\ [][NextReport]_vars

----------------------------------------------------------------------------
(* Definitions the properties are stated with *)

\* the summed length of the alignment-match and deletion operations of a CIGAR
RECURSIVE MatchDelLen(_, _)
MatchDelLen(cigar, i) ==
    IF i > Len(cigar) THEN 0
    ELSE MatchDelLen(cigar, i + 1)
         + (IF cigar[i].kind = "Match" \/ cigar[i].kind = "Del" THEN cigar[i].len ELSE 0)

RefStart(r) == r.pos + 1
RefEnd(r) == RefStart(r) - 1 + MatchDelLen(r.cigar, 1)

\* the record is neither supplementary nor unmapped, and the catalog q has its chromosome
Counted(q, r) ==
    /\ ~r.supplementary
    /\ r.tid >= 0
    /\ BamHeader[r.tid + 1] \in DOMAIN q

\* the region is visited by the query of the span [a, b]
Visited(region, a, b) == Overlaps(region, a - 1, b + 1)

AllNodes(q) == UNION {{<<c, i>> : i \in DOMAIN q[c]} : c \in DOMAIN q}

----------------------------------------------------------------------------
(* C1: processing a record that is not supplementary, has a reference and   *)
(* maps to a chromosome of the catalog adds, to every region of that        *)
(* chromosome that the query of [ref_start, ref_end] visits and that is not *)
(* named ".", exactly min(ref_end, end) - max(ref_start, start) + 1, with   *)
(* ref_start = pos + 1, ref_end = ref_start - 1 + the Match and Del lengths *)
(* and the region's end as stored.                                          *)
C1_OverlapAdded ==
    pc = "bam" =>
        \A r \in AlnRecords :
            Counted(querents, r) =>
                LET c == BamHeader[r.tid + 1]
                    after == ProcessRecord(querents, r).querents
                IN  \A i \in DOMAIN querents[c] :
                        LET region == querents[c][i]
                        IN  (region.name # "." /\ Visited(region, RefStart(r), RefEnd(r)))
                            => after[c][i].count
                               = region.count
                                 + Min(RefEnd(r), region.last)
                                 - Max(RefStart(r), region.first) + 1

\* a record spanning [1, 1] has been processed and the region [0, 1) named "A"
\* of its chromosome holds 1 - 1 + 1 = 1
C1_Witness ==
    /\ pc = "bam_next"
    /\ cur.branch = "queried"
    /\ cur.start = 1 /\ cur.end = 1
    /\ \E i \in DOMAIN querents[cur.chrom] :
          /\ querents[cur.chrom][i].name = "A"
          /\ querents[cur.chrom][i].first = 0
          /\ querents[cur.chrom][i].last = 1
          /\ querents[cur.chrom][i].count = 1

----------------------------------------------------------------------------
(* C5: in every reachable state the overlap_total of every region named "." *)
(* is 0; the region is in its chromosome's index, and the finished report   *)
(* has its Amplicon line, with a depth of 0 over its length.                *)
C5_SentinelStaysZero ==
    /\ \A n \in AllNodes(querents) :
          querents[n[1]][n[2]].name = "." => querents[n[1]][n[2]].count = 0
    /\ pc = "done" =>
          \A n \in AllNodes(querents) :
              LET region == querents[n[1]][n[2]]
              IN  region.name = "." =>
                      \E k \in DOMAIN stdout :
                          /\ stdout[k].tag = "Amplicon"
                          /\ stdout[k].gene = "."
                          /\ stdout[k].chr = n[1]
                          /\ stdout[k].start = region.first
                          /\ stdout[k].end = region.last
                          /\ stdout[k].depth.num = 0

\* a record spanning [1, 1] has been processed, and a region named "." of its
\* chromosome that holds base 1 still has 0
C5_Witness ==
    /\ pc = "bam_next"
    /\ cur.branch = "queried"
    /\ cur.start = 1 /\ cur.end = 1
    /\ \E i \in DOMAIN querents[cur.chrom] :
          /\ querents[cur.chrom][i].name = "."
          /\ querents[cur.chrom][i].first <= 1
          /\ querents[cur.chrom][i].last >= 1
          /\ querents[cur.chrom][i].count = 0

----------------------------------------------------------------------------
(* C6: the body of the alignment loop, on a record that is unmapped, or     *)
(* supplementary, or whose chromosome has no region, ends in a skip and     *)
(* leaves every overlap_total as it was; the totals are 0 when the loop is  *)
(* entered, so a stream of such records leaves them at 0.                   *)
C6_SkipsChangeNothing ==
    /\ pc = "openbam" =>
          \A n \in AllNodes(querents) : querents[n[1]][n[2]].count = 0
    /\ pc = "bam" =>
          \A r \in AlnRecords :
              ~Counted(querents, r) =>
                  LET after == ProcessRecord(querents, r)
                  IN  /\ after.querents = querents
                      /\ after.cur.branch \in {"supplementary", "unmapped", "absent"}

\* a mapped, primary record of a chromosome without regions has been skipped
\* while another chromosome has a region, still at 0
C6_Witness ==
    /\ pc = "bam_next"
    /\ cur.branch = "absent"
    /\ AllNodes(querents) # {}
    /\ \A n \in AllNodes(querents) : querents[n[1]][n[2]].count = 0

----------------------------------------------------------------------------
(* C7 as stated: an alignment [a, b] with b < s or a >= e adds nothing to   *)
(* the region stored as [s, e).                                             *)
C7_OutsideAddsZero_Stated ==
    [][(pc = "bam" /\ pc' = "bam_next" /\ cur'.branch = "queried") =>
        \A i \in DOMAIN querents[cur'.chrom] :
            LET region == querents[cur'.chrom][i]
            IN  (cur'.end < region.first \/ cur'.start >= region.last)
                => querents'[cur'.chrom][i].count = region.count]_vars

(* C7 as amended: an alignment [a, b] with b < s or a > e adds nothing to   *)
(* the region stored as [s, e).                                             *)
C7_OutsideAddsZero ==
    [][(pc = "bam" /\ pc' = "bam_next" /\ cur'.branch = "queried") =>
        \A i \in DOMAIN querents[cur'.chrom] :
            LET region == querents[cur'.chrom][i]
            IN  (cur'.end < region.first \/ cur'.start > region.last)
                => querents'[cur'.chrom][i].count = region.count]_vars

\* a record starting at 1 has been processed; the region [0, 0) named "A" of
\* its chromosome, which the padded query visits, still has 0
C7_Witness ==
    /\ pc = "bam_next"
    /\ cur.branch = "queried"
    /\ cur.start = 1
    /\ \E i \in DOMAIN querents[cur.chrom] :
          /\ querents[cur.chrom][i].name = "A"
          /\ querents[cur.chrom][i].last = 0
          /\ Visited(querents[cur.chrom][i], cur.start, cur.end)
          /\ querents[cur.chrom][i].count = 0

----------------------------------------------------------------------------
(* C8: standard output is empty in every state but the last one of a run    *)
(* without error; in particular it is empty after any fatal error.          *)
C8_NoPartialReport ==
    /\ pc = "panicked" => stdout = <<>>
    /\ stdout # <<>> => pc = "done"

\* the run has aborted on a malformed alignment record, the last place where
\* a fatal error can occur
C8_Witness ==
    /\ pc = "panicked"
    /\ cur.branch = "bam record error"

----------------------------------------------------------------------------
(* C9: from every reachable state of the alignment loop, two records leave  *)
(* the same overlap_total in every region whichever is processed first;     *)
(* any two orderings of a stream differ by such exchanges, so the totals,   *)
(* and the report computed from them, are those of the multiset of records. *)
C9_OrderIndependent ==
    pc = "bam" =>
        \A r1 \in AlnRecordsOrder : \A r2 \in AlnRecordsOrder :
            ProcessRecord(ProcessRecord(querents, r1).querents, r2).querents
            = ProcessRecord(ProcessRecord(querents, r2).querents, r1).querents

\* the region [2, 2) named "A" holds 1, which only a record spanning [2, 2]
\* adds, and the last record processed on its chromosome spans [1, 1]: the
\* positions of the stream went down
C9_Witness ==
    /\ pc = "bam_next"
    /\ cur.branch = "queried"
    /\ cur.start = 1 /\ cur.end = 1
    /\ \E i \in DOMAIN querents[cur.chrom] :
          /\ querents[cur.chrom][i].name = "A"
          /\ querents[cur.chrom][i].first = 2
          /\ querents[cur.chrom][i].last = 2
          /\ querents[cur.chrom][i].count = 1

----------------------------------------------------------------------------
(* C10: no record lowers an overlap_total; a record without Match and Del   *)
(* operation, and a record on a region that only the pad of its query       *)
(* reaches, add exactly 0; every overlap_total is >= 0.                     *)
PadOnly(region, a, b) == Visited(region, a, b) /\ ~Overlaps(region, a, b)

C10_NeverNegative ==
    /\ \A n \in AllNodes(querents) : querents[n[1]][n[2]].count >= 0
    /\ pc = "bam" =>
          \A r \in AlnRecords :
              LET after == ProcessRecord(querents, r).querents
              IN  \A n \in AllNodes(querents) :
                      LET region == querents[n[1]][n[2]]
                          added == after[n[1]][n[2]].count - region.count
                      IN  /\ added >= 0
                          /\ MatchDelLen(r.cigar, 1) = 0 => added = 0
                          /\ PadOnly(region, RefStart(r), RefEnd(r)) => added = 0

\* a record with an empty span [1, 0] has been processed; the region [0, 1)
\* named "A" of its chromosome was visited and still has 0
C10_Witness ==
    /\ pc = "bam_next"
    /\ cur.branch = "queried"
    /\ cur.start = 1 /\ cur.end = 0
    /\ \E i \in DOMAIN querents[cur.chrom] :
          /\ querents[cur.chrom][i].name = "A"
          /\ querents[cur.chrom][i].first = 0
          /\ querents[cur.chrom][i].last = 1
          /\ querents[cur.chrom][i].count = 0

----------------------------------------------------------------------------
(* The printed report: stdout[1] is the header; a block is a maximal run of *)
(* lines of one chromosome.                                                 *)

BlockStart(k) == k = 2 \/ (k > 2 /\ stdout[k - 1].chr # stdout[k].chr)
BlockEnd(k) == k = Len(stdout) \/ (k < Len(stdout) /\ stdout[k + 1].chr # stdout[k].chr)

\* the chromosomes of the blocks, in the order of the report
BlockChroms ==
    LET starts == SelectSeq([k \in 1..Len(stdout) |-> k], LAMBDA k : k >= 2 /\ BlockStart(k))
    IN  [j \in DOMAIN starts |-> stdout[starts[j]].chr]

\* the distinct elements of v in the order of their first occurrence
RECURSIVE FirstSeen(_)
FirstSeen(v) ==
    IF v = <<>> THEN <<>>
    ELSE LET rest == FirstSeen(SubSeq(v, 1, Len(v) - 1))
         IN  IF \E j \in DOMAIN rest : rest[j] = v[Len(v)] THEN rest
             ELSE Append(rest, v[Len(v)])

\* the regions of tree that are named gene
Group(tree, gene) == SelectSeq(tree, LAMBDA n : n.name = gene)

\* the sum of a sequence of integers
RECURSIVE SumSeq(_)
SumSeq(seq) == IF seq = <<>> THEN 0 ELSE Head(seq) + SumSeq(Tail(seq))

----------------------------------------------------------------------------
(* C2: the report has one block per distinct chromosome of the region       *)
(* input, in the order of the chromosomes' first occurrences there.         *)
(* (Removing repeats from bed_chrom_order, consecutive or not, keeps the    *)
(* first occurrences of the input.)                                         *)
C2_OneBlockPerChromosome ==
    pc = "done" => BlockChroms = FirstSeen(bed_chrom_order)

----------------------------------------------------------------------------
(* C3: every Whole-Gene line reports, for the regions of its chromosome     *)
(* that carry its name, the least start, the greatest end, the summed       *)
(* length, and the depth summed overlap / summed length, or 0.0 when the    *)
(* summed length is 0.                                                      *)
C3_WholeGeneTotals ==
    pc = "done" =>
        \A k \in 2..Len(stdout) :
            stdout[k].tag = "Whole-Gene" =>
                LET group == Group(querents[stdout[k].chr], stdout[k].gene)
                    summed_length ==
                        SumSeq([j \in DOMAIN group |->
                                   IF mimic_perl_output
                                   THEN group[j].last - group[j].first + 1
                                   ELSE group[j].last - group[j].first])
                    summed_overlap == SumSeq([j \in DOMAIN group |-> group[j].count])
                IN  /\ group # <<>>
                    /\ \A j \in DOMAIN group : stdout[k].start <= group[j].first
                    /\ \E j \in DOMAIN group : stdout[k].start = group[j].first
                    /\ \A j \in DOMAIN group : stdout[k].end >= group[j].last
                    /\ \E j \in DOMAIN group : stdout[k].end = group[j].last
                    /\ stdout[k].length = summed_length
                    /\ stdout[k].depth = IF summed_length > 0
                                         THEN [num |-> summed_overlap, den |-> summed_length]
                                         ELSE [num |-> 0, den |-> 1]

----------------------------------------------------------------------------
(* C4: in every block the Amplicon lines are the regions of the chromosome, *)
(* one line each, in ascending (name, start, end, overlap_total) order, and *)
(* every run of Amplicon lines of one name is followed at once by the one   *)
(* Whole-Gene line of that name.                                            *)
RowKey(row) == <<NameRank(row.gene), row.start, row.end, row.depth.num>>

C4_BlockLayout ==
    pc = "done" =>
        /\ \A k \in 2..Len(stdout) :
              \* a block starts with an Amplicon line and ends with a Whole-Gene line
              /\ BlockStart(k) => stdout[k].tag = "Amplicon"
              /\ BlockEnd(k) => stdout[k].tag = "Whole-Gene"
              /\ (stdout[k].tag = "Amplicon" /\ ~BlockEnd(k)) =>
                    \/ /\ stdout[k + 1].tag = "Amplicon"
                       /\ stdout[k + 1].gene = stdout[k].gene
                       /\ ~LexLess(RowKey(stdout[k + 1]), RowKey(stdout[k]))
                    \/ /\ stdout[k + 1].tag = "Whole-Gene"
                       /\ stdout[k + 1].gene = stdout[k].gene
              /\ (stdout[k].tag = "Whole-Gene" /\ ~BlockEnd(k)) =>
                    /\ stdout[k + 1].tag = "Amplicon"
                    /\ NameRank(stdout[k].gene) < NameRank(stdout[k + 1].gene)
        /\ \A k \in 2..Len(stdout) :
              \* each region of the block's chromosome has its lines, and no other
              BlockStart(k) =>
                  LET tree == querents[stdout[k].chr]
                      Same(row, n) == /\ row.tag = "Amplicon"
                                      /\ row.gene = n.name
                                      /\ row.start = n.first
                                      /\ row.end = n.last
                                      /\ row.depth.num = n.count
                      InBlock(j) == /\ j >= k
                                    /\ \A m \in k..j : stdout[m].chr = stdout[k].chr
                  IN  /\ \A i \in DOMAIN tree :
                            Cardinality({j \in 2..Len(stdout) :
                                            InBlock(j) /\ Same(stdout[j], tree[i])})
                            = Cardinality({i2 \in DOMAIN tree : tree[i2] = tree[i]})
                      /\ \A j \in 2..Len(stdout) :
                            (InBlock(j) /\ stdout[j].tag = "Amplicon") =>
                                \E i \in DOMAIN tree : Same(stdout[j], tree[i])

====
